---------------------------- MODULE Spec2Model ----------------------------
(***************************************************************************)
(* A model of the db_query_agent repository: the schema-relevance          *)
(* retrieval (three context builders), the query synthesizer and the query *)
(* executor of MinimalSQLAgent, SimpleSQLAgent and the crew variant        *)
(* SQLQueryAgent with its DatabaseSchemaAnalyzer.                          *)
(*                                                                         *)
(* Texts are sequences of one-character strings, so that lower(), split()  *)
(* and SQL LIKE are computed character by character.                       *)
(***************************************************************************)
EXTENDS Integers, Sequences, FiniteSets, TLC

VARIABLES
    env,      \* process environment read at construction: API key, database reachability
    db,       \* database content: comment tables, introspection views, foreign keys
    agent,    \* the agent instance: kind, lifecycle, connection and transaction status
    last,     \* the last call made on the instance, with its inputs and its result
    app       \* the app's session: st.session_state and what its last script run did

vars == <<env, db, agent, last, app>>

----------------------------------------------------------------------------
(* Texts *)

\* SQL NULL / Python None for a text field: no text is a one-element tuple
\* holding a several-character string.
NULL == <<"NULL">>

Empty == <<>>

RECURSIVE Reverse(_)
Reverse(s) == IF s = <<>> THEN <<>> ELSE Append(Reverse(Tail(s)), Head(s))

Take(s, n) == IF Len(s) <= n THEN s ELSE SubSeq(s, 1, n)

Range(s) == {s[i] : i \in DOMAIN s}

\* The grave accent of a code fence. A TLA+ string cannot hold that character, so
\* the circumflex stands for it in every text of the model.
Backtick == "^"

\* the characters of the model's texts, in code-point order
Alphabet ==
    <<"\n"," ","'","(",")","*",",","-",".","/","0","1","2","3","4","5","6","7","8","9",";","<","=",">","?","A","B","C","D","E","F","G","H","I","J","K","L","M","N","O","P","Q","R","S","T","U","V","W","X","Y","Z","_",Backtick,"a","b","c","d","e","f","g","h","i","j","k","l","m","n","o","p","q","r","s","t","u","v","w","x","y","z">>

Rank(c) == CHOOSE i \in DOMAIN Alphabet : Alphabet[i] = c

UpperCase == {Alphabet[i] : i \in 26..51}

\* str.lower() of Python and LOWER() of SQL: an upper-case letter becomes the
\* lower-case letter, every other character is kept
LowerChar(c) == IF c \in UpperCase THEN Alphabet[Rank(c) + 28] ELSE c

Lower(s) == [i \in DOMAIN s |-> LowerChar(s[i])]

IsSpace(c) == c \in {" ", "\n", "\t"}

\* str.split(): the maximal runs of non-whitespace characters, in order
RECURSIVE SplitFrom(_, _, _)
SplitFrom(s, cur, acc) ==
    IF s = <<>>
    THEN IF cur = <<>> THEN acc ELSE Append(acc, cur)
    ELSE IF IsSpace(Head(s))
         THEN SplitFrom(Tail(s), <<>>, IF cur = <<>> THEN acc ELSE Append(acc, cur))
         ELSE SplitFrom(Tail(s), Append(cur, Head(s)), acc)

Split(s) == SplitFrom(s, <<>>, <<>>)

\* str.strip(): leading and trailing whitespace removed
RECURSIVE LStrip(_)
LStrip(s) == IF s # <<>> /\ IsSpace(Head(s)) THEN LStrip(Tail(s)) ELSE s

Strip(s) == Reverse(LStrip(Reverse(LStrip(s))))

IsPrefix(p, s) == Len(p) <= Len(s) /\ SubSeq(s, 1, Len(p)) = p

\* str.replace(old, ""): the non-overlapping occurrences of old, left to right
RECURSIVE Remove(_, _)
Remove(s, old) ==
    IF s = <<>> THEN <<>>
    ELSE IF IsPrefix(old, s)
         THEN Remove(SubSeq(s, Len(old) + 1, Len(s)), old)
         ELSE <<Head(s)>> \o Remove(Tail(s), old)

\* the text appears in s
RECURSIVE Contains(_, _)
Contains(s, sub) ==
    IsPrefix(sub, s) \/ (s # <<>> /\ Contains(Tail(s), sub))

\* SQL  s LIKE p : % matches any run of characters, _ any one character;
\* LikeAt compares s from position i with p from position j
RECURSIVE LikeAt(_, _, _, _)
LikeAt(s, i, p, j) ==
    IF j > Len(p) THEN i > Len(s)
    ELSE IF p[j] = "%"
         THEN LikeAt(s, i, p, j + 1) \/ (i <= Len(s) /\ LikeAt(s, i + 1, p, j))
         ELSE /\ i <= Len(s)
              /\ (p[j] = "_" \/ p[j] = s[i])
              /\ LikeAt(s, i + 1, p, j + 1)

Like(s, p) == LikeAt(s, 1, p, 1)

\* search_terms = query.lower().split(); patterns = [%term% ...]
Patterns(query) ==
    LET terms == Split(Lower(query))
    IN  [i \in DOMAIN terms |-> <<"%">> \o terms[i] \o <<"%">>]

\* SQL  LOWER(x) LIKE ANY(patterns) : NULL for a NULL x, which WHERE treats as no match
LikeAny(x, patterns) ==
    /\ x # NULL
    /\ LET lowered == Lower(x)
       IN  \E i \in DOMAIN patterns : Like(lowered, patterns[i])


----------------------------------------------------------------------------
(* Database content *)

t_catchment == <<"c","a","t","c","h","m","e","n","t">>
t_country == <<"c","o","u","n","t","r","y">>
t_training == <<"t","r","a","i","n","i","n","g">>
t_area == <<"a","r","e","a">>
c_country_id == <<"c","o","u","n","t","r","y","_","i","d">>
c_id == <<"i","d">>
c_name == <<"n","a","m","e">>
s_public == <<"p","u","b","l","i","c">>
s_archive == <<"a","r","c","h","i","v","e">>
CatchmentComment == <<"c","a","t","c","h","m","e","n","t"," ","b","o","u","n","d","a","r","i","e","s"," ","b","y"," ","c","o","u","n","t","r","y">>

DigitChar == <<"0","1","2","3","4","5","6","7","8","9">>

\* a generated identifier: the prefix letter and two decimal digits
Numbered(prefix, i) == <<prefix, DigitChar[(i \div 10) + 1], DigitChar[(i % 10) + 1]>>

\* rows of <schema>.comment_on_table: table_name, comment, schema_name
TableRow(n, c, s) == [table_name |-> n, comment |-> c, schema_name |-> s]

TablePool ==
    << TableRow(t_catchment, CatchmentComment, s_public),
       TableRow(t_country, <<"l","i","s","t"," ","o","f"," ","c","o","u","n","t","r","i","e","s">>, s_public),
       TableRow(t_training, <<"s","t","a","f","f"," ","t","r","a","i","n","i","n","g"," ","r","e","c","o","r","d","s">>, s_public),
       TableRow(t_catchment, <<"c","a","t","c","h","m","e","n","t","s"," ","b","y"," ","c","o","u","n","t","r","y">>, s_archive),
       TableRow(t_area, NULL, s_public) >>

BulkTables(n) == [i \in 1..n |-> TableRow(Numbered("t", i), <<"b","u","l","k"," ","t","a","b","l","e">>, s_public)]

\* rows of <schema>.comment_on_column: table_name, column_name, comment, schema_name
ColumnRow(tn, cn, c, s) ==
    [table_name |-> tn, column_name |-> cn, comment |-> c, schema_name |-> s]

ColumnPool ==
    << ColumnRow(t_catchment, c_country_id, <<"c","o","u","n","t","r","y"," ","o","f"," ","t","h","e"," ","c","a","t","c","h","m","e","n","t">>, s_public),
       ColumnRow(t_catchment, c_name, <<"c","a","t","c","h","m","e","n","t"," ","n","a","m","e">>, s_public),
       ColumnRow(t_catchment, c_country_id, <<"c","o","u","n","t","r","y"," ","o","f"," ","t","h","e"," ","c","a","t","c","h","m","e","n","t">>, s_archive),
       ColumnRow(t_country, c_id, NULL, s_public),
       ColumnRow(t_country, c_name, <<"c","o","u","n","t","r","y"," ","n","a","m","e">>, s_public) >>

BulkColumns(n) ==
    [i \in 1..n |-> ColumnRow(t_training, Numbered("c", i), <<"b","u","l","k"," ","c","o","l","u","m","n">>, s_public)]

\* rows of information_schema.columns: table_name, column_name, data_type, ordinal_position
InfoRow(tn, cn, ty, pos) ==
    [table_name |-> tn, column_name |-> cn, data_type |-> ty, ordinal_position |-> pos]

InfoPool ==
    << InfoRow(t_country, c_name, "text", 2),
       InfoRow(t_catchment, c_id, "integer", 1),
       InfoRow(t_catchment, c_name, "text", 2),
       InfoRow(t_catchment, c_country_id, "integer", 3),
       InfoRow(t_catchment, t_area, "numeric", 4),
       InfoRow(t_country, c_id, "integer", 1) >>

BulkInfo(n) == [i \in 1..n |-> InfoRow(t_training, Numbered("c", i), "text", i)]

\* a foreign key: one row in each of table_constraints, key_column_usage and
\* constraint_column_usage, under the constraint's name
ForeignKey(name, ft, fc, tt, tc) ==
    [constraint_name |-> name, from_table |-> ft, from_column |-> fc,
     to_table |-> tt, to_column |-> tc]

CatchmentCountryFk == ForeignKey(<<"fk", 0>>, t_catchment, c_country_id, t_country, c_id)

BulkFks(n) ==
    [i \in 1..n |-> ForeignKey(<<"fk", i>>, Numbered("t", i), c_country_id, t_country, c_id)]

TableConstraints(fks) ==
    [i \in DOMAIN fks |-> [constraint_name |-> fks[i].constraint_name,
                            table_name |-> fks[i].from_table,
                            constraint_type |-> "FOREIGN KEY"]]

KeyColumnUsage(fks) ==
    [i \in DOMAIN fks |-> [constraint_name |-> fks[i].constraint_name,
                            table_name |-> fks[i].from_table,
                            column_name |-> fks[i].from_column]]

ConstraintColumnUsage(fks) ==
    [i \in DOMAIN fks |-> [constraint_name |-> fks[i].constraint_name,
                            table_name |-> fks[i].to_table,
                            column_name |-> fks[i].to_column]]

\* the rows of pool at the chosen positions, in the pool's order
RECURSIVE Pick(_, _)
Pick(pool, keep) ==
    IF pool = <<>> THEN <<>>
    ELSE Pick(SubSeq(pool, 1, Len(pool) - 1), keep)
         \o (IF Len(pool) \in keep THEN <<pool[Len(pool)]>> ELSE <<>>)

Database(tables, columns, info, fks) ==
    [comment_on_table |-> tables,
     comment_on_column |-> columns,
     columns |-> info,
     table_constraints |-> TableConstraints(fks),
     key_column_usage |-> KeyColumnUsage(fks),
     constraint_column_usage |-> ConstraintColumnUsage(fks)]


----------------------------------------------------------------------------
(* Query results *)

\* The order of a query without ORDER BY is the planner's: the model lets each
\* call see the stored order or its reverse, and LIMIT cuts that order.
Plans == {"fwd", "rev"}

Scan(rows, plan) == IF plan = "fwd" THEN rows ELSE Reverse(rows)

\* SELECT DISTINCT: the first of equal rows is kept
RECURSIVE Distinct(_)
Distinct(rows) ==
    IF rows = <<>> THEN <<>>
    ELSE LET front == SubSeq(rows, 1, Len(rows) - 1)
             r == rows[Len(rows)]
         IN  IF r \in Range(front) THEN Distinct(front) ELSE Append(Distinct(front), r)

\* text comparison of ORDER BY, by code point
RECURSIVE TextLess(_, _)
TextLess(a, b) ==
    IF b = <<>> THEN FALSE
    ELSE IF a = <<>> THEN TRUE
    ELSE IF Head(a) = Head(b) THEN TextLess(Tail(a), Tail(b))
    ELSE Rank(Head(a)) < Rank(Head(b))

\* a Python value is truthy: neither None nor the empty string
Truthy(x) == x # NULL /\ x # <<>>

TableLimit == 10
FallbackLimit == 5
ColumnLimit == 15
InfoColumnLimit == 20
MinMatchedColumns == 3
RelationshipLimit == 10

\* the lines of a schema context
Line(kind, a, b, c, d) == [kind |-> kind, a |-> a, b |-> b, c |-> c, d |-> d]

SchemaTitle == <<"D","a","t","a","b","a","s","e"," ","S","c","h","e","m","a",":">>
SchemaContextTitle == <<"D","a","t","a","b","a","s","e"," ","S","c","h","e","m","a"," ","C","o","n","t","e","x","t",":">>
HeaderLine(title) == Line("header", title, NULL, NULL, NULL)
BlankLine == Line("blank", NULL, NULL, NULL, NULL)
TableLine(schema, name) == Line("table", schema, name, NULL, NULL)
DescriptionLine(comment) == Line("description", comment, NULL, NULL, NULL)
ColumnsLine == Line("columns", NULL, NULL, NULL, NULL)
ColumnLine(name, comment) == Line("column", name, comment, NULL, NULL)
RelationshipsLine == Line("relationships", NULL, NULL, NULL, NULL)
RelationshipLine(r) == Line("relationship", r.from_table, r.from_column, r.to_table, r.to_column)
NoTablesLine == Line("no_relevant_tables", NULL, NULL, NULL, NULL)

\* a column as the context builders hold it
Col(name, comment) == [column_name |-> name, column_comment |-> comment]

\* the rows of a column query as columns, and the rows of the introspection
\* query, which carry no comment
AsCols(rows) == [i \in DOMAIN rows |-> Col(rows[i].column_name, rows[i].comment)]

BareCols(rows) == [i \in DOMAIN rows |-> Col(rows[i].column_name, NULL)]

\* "    - name" with ": comment" when the comment is truthy
ColumnBullets(cols) ==
    [i \in DOMAIN cols |->
        ColumnLine(cols[i].column_name,
                   IF Truthy(cols[i].column_comment) THEN cols[i].column_comment ELSE NULL)]

RelationshipBullets(rels) == [i \in DOMAIN rels |-> RelationshipLine(rels[i])]

RECURSIVE Flatten(_)
Flatten(ss) == IF ss = <<>> THEN <<>> ELSE Head(ss) \o Flatten(Tail(ss))

TableNames(tables) == [i \in DOMAIN tables |-> tables[i].table_name]

\* what a context builder returns, with the lists it was rendered from
Context(tables, columns, relationships, lines) ==
    [tables |-> tables, columns |-> columns, relationships |-> relationships,
     lines |-> lines]

\* the foreign-key query: table_constraints joined with key_column_usage and
\* constraint_column_usage on the constraint name, either end in table_names
RECURSIVE FkJoin(_, _, _, _)
FkJoin(tcs, kcus, ccus, names) ==
    IF tcs = <<>> THEN <<>>
    ELSE LET tc == Head(tcs)
             SameK(r) == r.constraint_name = tc.constraint_name
             ks == SelectSeq(kcus, SameK)
             cs == SelectSeq(ccus, SameK)
             Joined(k) ==
                 LET Touches(c) == tc.table_name \in names \/ c.table_name \in names
                     hit == SelectSeq(cs, Touches)
                 IN  [i \in DOMAIN hit |->
                        [from_table |-> tc.table_name, from_column |-> k.column_name,
                         to_table |-> hit[i].table_name, to_column |-> hit[i].column_name]]
         IN  (IF tc.constraint_type = "FOREIGN KEY"
              THEN Flatten([i \in DOMAIN ks |-> Joined(ks[i])])
              ELSE <<>>)
             \o FkJoin(Tail(tcs), kcus, ccus, names)

ForeignKeyRows(d, names, plan) ==
    Scan(FkJoin(d.table_constraints, d.key_column_usage, d.constraint_column_usage,
                Range(names)), plan)

\* information_schema.columns of one table ORDER BY ordinal_position
RECURSIVE InsertByPosition(_, _)
InsertByPosition(sorted, r) ==
    IF sorted = <<>> THEN <<r>>
    ELSE IF r.ordinal_position < Head(sorted).ordinal_position
         THEN <<r>> \o sorted
         ELSE <<Head(sorted)>> \o InsertByPosition(Tail(sorted), r)

RECURSIVE SortByPosition(_)
SortByPosition(rows) ==
    IF rows = <<>> THEN <<>>
    ELSE InsertByPosition(SortByPosition(SubSeq(rows, 1, Len(rows) - 1)), rows[Len(rows)])

InfoColumns(d, table, plan, limit) ==
    LET Of(r) == r.table_name = table
    IN  Take(SortByPosition(SelectSeq(Scan(d.columns, plan), Of)), limit)


----------------------------------------------------------------------------
(* MinimalSQLAgent.get_relevant_schema *)

(* Each step of a builder is an operator applied to the value of the step     *)
(* before it, in the order of the statements of the source.                   *)

TableMatches(r, patterns) ==
    LikeAny(r.comment, patterns) \/ LikeAny(r.table_name, patterns)

ColumnMatches(r, patterns) ==
    LikeAny(r.comment, patterns) \/ LikeAny(r.column_name, patterns)

\* SELECT DISTINCT ... WHERE LOWER(comment) LIKE ANY(patterns) OR LOWER(table_name) LIKE ANY(patterns)
MatchingTables(d, patterns, plan) ==
    LET Match(r) == TableMatches(r, patterns)
    IN  Distinct(SelectSeq(Scan(d.comment_on_table, plan), Match))

\* if not relevant_tables: the rows of the fallback query
OrFallback(found, fallback) == IF found = <<>> THEN fallback ELSE found

\* the table query, whose LIMIT is commented out, and the fallback query, whose
\* LIMIT is commented out too: limit is passed and not used
Minimal_relevant_tables(d, patterns, limit, plan) ==
    OrFallback(MatchingTables(d, patterns, plan), Scan(d.comment_on_table, plan))

\* the column query: every commented column of the table, no pattern, no LIMIT
Minimal_columns(d, table_name, plan) ==
    LET Of(r) == r.table_name = table_name
    IN  AsCols(SelectSeq(Scan(d.comment_on_column, plan), Of))

\* the block of one table: header, description, columns, blank line
TableBlock(schema, table, cols, withColumns) ==
    <<TableLine(schema, table.table_name)>>
    \o (IF Truthy(table.comment) THEN <<DescriptionLine(table.comment)>> ELSE <<>>)
    \o (IF withColumns THEN <<ColumnsLine>> \o ColumnBullets(cols) ELSE <<>>)
    \o <<BlankLine>>

\* the loop over relevant_tables of MinimalSQLAgent and SimpleSQLAgent
SchemaBlocks(relevant_tables, columns) ==
    <<HeaderLine(SchemaTitle), BlankLine>>
    \o Flatten([i \in DOMAIN relevant_tables |->
                   TableBlock(relevant_tables[i].schema_name, relevant_tables[i],
                              columns[i], columns[i] # <<>>)])

Minimal_context(relevant_tables, columns) ==
    Context(relevant_tables, columns, <<>>, SchemaBlocks(relevant_tables, columns))

Minimal_build(d, relevant_tables, plan) ==
    Minimal_context(relevant_tables,
                    [i \in DOMAIN relevant_tables |->
                        Minimal_columns(d, relevant_tables[i].table_name, plan)])

Minimal_get_relevant_schema(d, query, plan) ==
    Minimal_build(d, Minimal_relevant_tables(d, Patterns(query), TableLimit, plan), plan)

----------------------------------------------------------------------------
(* SimpleSQLAgent.get_relevant_schema *)

\* the table query with LIMIT limit, and the fallback query with LIMIT 5
Simple_relevant_tables(d, patterns, limit, plan) ==
    OrFallback(Take(MatchingTables(d, patterns, plan), limit),
               Take(Scan(d.comment_on_table, plan), FallbackLimit))

\* if not columns: the introspection columns
OrAllColumns(columns, basic) == IF columns = <<>> THEN basic ELSE columns

\* the matching commented columns, LIMIT 15; when there is none, the table's
\* introspection columns, LIMIT 15
Simple_columns(d, table_name, patterns, plan) ==
    LET Of(r) == r.table_name = table_name /\ ColumnMatches(r, patterns)
    IN  OrAllColumns(
            AsCols(Take(SelectSeq(Scan(d.comment_on_column, plan), Of), ColumnLimit)),
            BareCols(InfoColumns(d, table_name, plan, ColumnLimit)))

\* if relevant_tables: the foreign-key query, LIMIT 10
Simple_relationships(d, relevant_tables, plan) ==
    IF relevant_tables = <<>> THEN <<>>
    ELSE Take(ForeignKeyRows(d, TableNames(relevant_tables), plan), RelationshipLimit)

RelationshipBlock(rels) ==
    IF rels = <<>> THEN <<>> ELSE <<RelationshipsLine>> \o RelationshipBullets(rels)

Simple_context(relevant_tables, columns, relationships) ==
    Context(relevant_tables, columns, relationships,
            SchemaBlocks(relevant_tables, columns) \o RelationshipBlock(relationships))

Simple_build(d, relevant_tables, patterns, plan) ==
    Simple_context(relevant_tables,
                   [i \in DOMAIN relevant_tables |->
                       Simple_columns(d, relevant_tables[i].table_name, patterns, plan)],
                   Simple_relationships(d, relevant_tables, plan))

Simple_tables_then_build(d, patterns, plan) ==
    Simple_build(d, Simple_relevant_tables(d, patterns, TableLimit, plan), patterns, plan)

Simple_get_relevant_schema(d, query, plan) ==
    Simple_tables_then_build(d, Patterns(query), plan)

----------------------------------------------------------------------------
(* DatabaseSchemaAnalyzer *)

\* ORDER BY relevance_score DESC, t.table_name
ScoredBefore(a, b) ==
    \/ a.relevance_score > b.relevance_score
    \/ a.relevance_score = b.relevance_score /\ TextLess(a.table_name, b.table_name)

RECURSIVE InsertScored(_, _)
InsertScored(sorted, r) ==
    IF sorted = <<>> THEN <<r>>
    ELSE IF ScoredBefore(r, Head(sorted))
         THEN <<r>> \o sorted
         ELSE <<Head(sorted)>> \o InsertScored(Tail(sorted), r)

RECURSIVE SortScored(_)
SortScored(rows) ==
    IF rows = <<>> THEN <<>>
    ELSE InsertScored(SortScored(SubSeq(rows, 1, Len(rows) - 1)), rows[Len(rows)])

\* COUNT(*) OVER (PARTITION BY t.table_name): the matching rows of that table name
Scored(matched) ==
    [i \in DOMAIN matched |->
        [table_name |-> matched[i].table_name,
         comment |-> matched[i].comment,
         schema_name |-> matched[i].schema_name,
         relevance_score |->
            Cardinality({j \in DOMAIN matched : matched[j].table_name = matched[i].table_name})]]

\* the rows WHERE keeps, before the window function and DISTINCT
MatchedTableRows(d, patterns, plan) ==
    LET Match(r) == TableMatches(r, patterns)
    IN  SelectSeq(Scan(d.comment_on_table, plan), Match)

get_relevant_tables(d, query, limit, plan) ==
    Take(SortScored(Distinct(Scored(MatchedTableRows(d, Patterns(query), plan)))), limit)

\* ORDER BY c.table_name, c.column_name
ColumnBefore(a, b) ==
    \/ TextLess(a.table_name, b.table_name)
    \/ a.table_name = b.table_name /\ TextLess(a.column_name, b.column_name)

RECURSIVE InsertColumn(_, _)
InsertColumn(sorted, r) ==
    IF sorted = <<>> THEN <<r>>
    ELSE IF ColumnBefore(r, Head(sorted))
         THEN <<r>> \o sorted
         ELSE <<Head(sorted)>> \o InsertColumn(Tail(sorted), r)

RECURSIVE SortColumns(_)
SortColumns(rows) ==
    IF rows = <<>> THEN <<>>
    ELSE InsertColumn(SortColumns(SubSeq(rows, 1, Len(rows) - 1)), rows[Len(rows)])

\* the column query of get_relevant_columns
MatchedColumnRows(d, names, patterns, plan) ==
    LET Match(r) == r.table_name \in names /\ ColumnMatches(r, patterns)
    IN  SortColumns(SelectSeq(Scan(d.comment_on_column, plan), Match))

\* columns_by_table[table] after the grouping loop; no key is an empty list here
Grouped(columns, table) ==
    LET Of(r) == r.table_name = table
    IN  AsCols(SelectSeq(columns, Of))

\* the loop over basic_cols: a column is appended unless its name is already there
RECURSIVE Supplement(_, _)
Supplement(cols, basic) ==
    IF basic = <<>> THEN cols
    ELSE Supplement(IF \E i \in DOMAIN cols : cols[i].column_name = Head(basic).column_name
                    THEN cols
                    ELSE Append(cols, Col(Head(basic).column_name, NULL)),
                    Tail(basic))

\* if table not in columns_by_table or len(columns_by_table[table]) < 3
NeedsAllColumns(matched) == matched = <<>> \/ Len(matched) < MinMatchedColumns

\* columns_by_table[table] after the second loop
FinalColumns(d, table, matched, plan) ==
    IF NeedsAllColumns(matched)
    THEN Supplement(matched, InfoColumns(d, table, plan, InfoColumnLimit))
    ELSE matched

\* columns_by_table as a function of the table names that are its keys: a key
\* is set by the grouping loop or by the second loop
ColumnsByTable(d, names, columns, plan) ==
    [n \in {m \in names : Grouped(columns, m) # <<>> \/ NeedsAllColumns(Grouped(columns, m))}
        |-> FinalColumns(d, n, Grouped(columns, n), plan)]

get_relevant_columns(d, table_names, query, plan) ==
    IF table_names = <<>> THEN <<>>
    ELSE ColumnsByTable(d, Range(table_names),
                        MatchedColumnRows(d, Range(table_names), Patterns(query), plan),
                        plan)

get_table_relationships(d, table_names, plan) ==
    IF table_names = <<>> THEN <<>> ELSE ForeignKeyRows(d, table_names, plan)

\* the context string of get_optimized_schema_context, from its three lists
Optimized_context(relevant_tables, columns_by_table, relationships) ==
    Context(relevant_tables,
            [i \in DOMAIN relevant_tables |->
                IF relevant_tables[i].table_name \in DOMAIN columns_by_table
                THEN columns_by_table[relevant_tables[i].table_name] ELSE <<>>],
            relationships,
            <<HeaderLine(SchemaContextTitle), BlankLine>>
            \o Flatten([i \in DOMAIN relevant_tables |->
                  TableBlock(NULL, relevant_tables[i],
                             IF relevant_tables[i].table_name \in DOMAIN columns_by_table
                             THEN Take(columns_by_table[relevant_tables[i].table_name],
                                       ColumnLimit)
                             ELSE <<>>,
                             relevant_tables[i].table_name \in DOMAIN columns_by_table)])
            \o RelationshipBlock(Take(relationships, RelationshipLimit)))

Optimized_build(d, relevant_tables, query, plan) ==
    IF relevant_tables = <<>>
    THEN Context(<<>>, <<>>, <<>>, <<NoTablesLine>>)
    ELSE Optimized_context(relevant_tables,
                           get_relevant_columns(d, TableNames(relevant_tables), query, plan),
                           get_table_relationships(d, TableNames(relevant_tables), plan))

get_optimized_schema_context(d, query, plan) ==
    Optimized_build(d, get_relevant_tables(d, query, TableLimit, plan), query, plan)

----------------------------------------------------------------------------
(* The rendered text of a context *)

NewLine == <<"\n">>

\* the f-strings of the context builders, one line each with its line feed
RenderLine(l) ==
    CASE l.kind = "header" ->
           l.a \o NewLine
      [] l.kind = "blank" -> NewLine
      [] l.kind = "table" ->
           <<"T","a","b","l","e",":"," ">> \o (IF l.a = NULL THEN <<>> ELSE l.a \o <<".">>) \o l.b \o NewLine
      [] l.kind = "description" -> <<" "," ","D","e","s","c","r","i","p","t","i","o","n",":"," ">> \o l.a \o NewLine
      [] l.kind = "columns" -> <<" "," ","C","o","l","u","m","n","s",":">> \o NewLine
      [] l.kind = "column" ->
           <<" "," "," "," ","-"," ">> \o l.a \o (IF l.b = NULL THEN <<>> ELSE <<":"," ">> \o l.b) \o NewLine
      [] l.kind = "relationships" -> <<"R","e","l","a","t","i","o","n","s","h","i","p","s",":">> \o NewLine
      [] l.kind = "relationship" ->
           <<" "," ","-"," ">> \o l.a \o <<".">> \o l.b \o <<" ","-",">"," ">> \o l.c \o <<".">> \o l.d \o NewLine
      [] OTHER -> <<"N","o"," ","r","e","l","e","v","a","n","t"," ","t","a","b","l","e","s"," ","f","o","u","n","d"," ","f","o","r"," ","t","h","e"," ","q","u","e","r","y",".">>

Render(lines) == Flatten([i \in DOMAIN lines |-> RenderLine(lines[i])])

PreviewLimit == 500

\* schema_context[:500]
Preview(context) == Take(Render(context.lines), PreviewLimit)

----------------------------------------------------------------------------
(* The database server and the language-model service *)

SqlSelect1 == <<"S","E","L","E","C","T"," ","1">>
SqlDivZero == <<"S","E","L","E","C","T"," ","1","/","0">>
SqlEmpty == <<"S","E","L","E","C","T"," ","i","d"," ","F","R","O","M"," ","c","a","t","c","h","m","e","n","t"," ","W","H","E","R","E"," ","i","d"," ","<"," ","0">>
SqlTypo == <<"S","E","L","E","C"," ","1">>
SqlSet == <<"S","E","T"," ","s","e","a","r","c","h","_","p","a","t","h"," ","="," ","p","u","b","l","i","c">>

\* What the server does with a statement, and with EXPLAIN of it. The planner
\* folds the constant 1/0, so EXPLAIN fails on it as the statement does.
Statement(text, kind, columns, rows, error, explain) ==
    [text |-> text, kind |-> kind, columns |-> columns, rows |-> rows,
     error |-> error, explain |-> explain]

Statements ==
    { Statement(SqlSelect1, "rows", <<"?column?">>, << <<1>> >>, "", ""),
      Statement(SqlDivZero, "error", <<>>, <<>>, "division by zero", "division by zero"),
      Statement(SqlEmpty, "rows", <<"id">>, <<>>, "", ""),
      Statement(SqlTypo, "error", <<>>, <<>>, "syntax error at or near SELEC",
                "syntax error at or near SELEC"),
      Statement(SqlSet, "no_result", <<>>, <<>>, "", "syntax error at or near SET") }

SqlTexts == {s.text : s \in Statements}

\* any other text is not SQL
DbEval(text) ==
    IF text \in SqlTexts
    THEN CHOOSE s \in Statements : s.text = text
    ELSE Statement(text, "error", <<>>, <<>>, "syntax error", "syntax error")

AbortedMessage == "current transaction is aborted, commands ignored until end of transaction block"
ClosedMessage == "connection already closed"

\* cursor.execute(sql) on a connection: the outcome and the transaction status
\* it leaves. A failed statement aborts the open transaction; nothing in the
\* agents rolls it back.
CursorExecute(conn, sql) ==
    IF conn.status = "closed"
    THEN [ok |-> FALSE, error |-> ClosedMessage, stmt |-> DbEval(sql), txn |-> conn.txn]
    ELSE IF conn.txn = "aborted"
    THEN [ok |-> FALSE, error |-> AbortedMessage, stmt |-> DbEval(sql), txn |-> "aborted"]
    ELSE IF DbEval(sql).kind = "error"
    THEN [ok |-> FALSE, error |-> DbEval(sql).error, stmt |-> DbEval(sql), txn |-> "aborted"]
    ELSE [ok |-> TRUE, error |-> "", stmt |-> DbEval(sql), txn |-> "intrans"]

\* EXPLAIN <sql> through the agent's cursor
CursorExplain(conn, sql) ==
    IF conn.status = "closed"
    THEN [ok |-> FALSE, error |-> ClosedMessage, txn |-> conn.txn]
    ELSE IF conn.txn = "aborted"
    THEN [ok |-> FALSE, error |-> AbortedMessage, txn |-> "aborted"]
    ELSE IF DbEval(sql).explain # ""
    THEN [ok |-> FALSE, error |-> DbEval(sql).explain, txn |-> "aborted"]
    ELSE [ok |-> TRUE, error |-> "", txn |-> "intrans"]

\* a metadata query of a context builder through the agent's cursor
CursorMetadata(conn) ==
    IF conn.status = "closed"
    THEN [ok |-> FALSE, error |-> ClosedMessage, txn |-> conn.txn]
    ELSE IF conn.txn = "aborted"
    THEN [ok |-> FALSE, error |-> AbortedMessage, txn |-> "aborted"]
    ELSE [ok |-> TRUE, error |-> "", txn |-> "intrans"]

\* pd.read_sql_query(sql, conn): a data frame, or an exception. pandas rolls the
\* connection back when the statement fails, and fails on a statement that
\* returns no result set after having run it.
ReadSqlQuery(conn, sql) ==
    LET run == CursorExecute(conn, sql)
    IN  IF conn.status = "closed"
        THEN [ok |-> FALSE, error |-> ClosedMessage, txn |-> conn.txn,
              columns |-> <<>>, rows |-> <<>>]
        ELSE IF ~run.ok
        THEN [ok |-> FALSE, error |-> run.error, txn |-> "idle",
              columns |-> <<>>, rows |-> <<>>]
        ELSE IF run.stmt.kind = "no_result"
        THEN [ok |-> FALSE, error |-> "'NoneType' object is not iterable",
              txn |-> run.txn, columns |-> <<>>, rows |-> <<>>]
        ELSE [ok |-> TRUE, error |-> "", txn |-> run.txn,
              columns |-> run.stmt.columns, rows |-> run.stmt.rows]

\* df.to_dict('records'): one mapping from column name to value per row
ToRecords(columns, rows) ==
    [i \in DOMAIN rows |->
        [c \in Range(columns) |->
            rows[i][CHOOSE j \in DOMAIN columns :
                        columns[j] = c /\ \A k \in DOMAIN columns : columns[k] = c => k <= j]]]

\* what the completion request comes back with
FenceSql == <<Backtick,Backtick,Backtick,"s","q","l">>
Fence == <<Backtick,Backtick,Backtick>>

Contents ==
    { SqlSelect1,
      <<Backtick,Backtick,Backtick,"s","q","l","\n","S","E","L","E","C","T"," ","1","\n",Backtick,Backtick,Backtick>>,
      <<" ","S","E","L","E","C","T"," ","1","/","0","\n">> }

LlmReplies ==
    {[kind |-> k, content |-> <<>>] : k \in {"transport_error", "status_error", "malformed"}}
    \cup {[kind |-> "ok", content |-> c] : c \in Contents}


----------------------------------------------------------------------------
(* The agents *)

Kinds == {"minimal", "simple", "crew"}

\* the connection the instance holds: self.conn with self.cursor, or the
\* schema analyzer's for the crew variant
Conn(a) == [status |-> IF a.state = "live" THEN "open" ELSE "closed", txn |-> a.txn]

NoAgent ==
    [kind |-> "none", state |-> "none", txn |-> "idle",
     attempted |-> 0, opened |-> 0, open |-> 0]

\* a constructor that connects before it reads the API key
Constructed_connect_first(kind, e) ==
    IF ~e.db_up
    THEN [kind |-> kind, state |-> "failed", txn |-> "idle",
          attempted |-> 1, opened |-> 0, open |-> 0]
    ELSE IF ~e.api_key
    THEN [kind |-> kind, state |-> "failed", txn |-> "idle",
          attempted |-> 1, opened |-> 1, open |-> 1]
    ELSE [kind |-> kind, state |-> "live", txn |-> "idle",
          attempted |-> 1, opened |-> 1, open |-> 1]

\* __init__ and connect_db: the API key is read first and its absence raises
\* before psycopg2.connect is called; a failed connect is re-raised
Constructed(kind, e) ==
    IF ~e.api_key
    THEN [kind |-> kind, state |-> "failed", txn |-> "idle",
          attempted |-> 0, opened |-> 0, open |-> 0]
    ELSE IF ~e.db_up
    THEN [kind |-> kind, state |-> "failed", txn |-> "idle",
          attempted |-> 1, opened |-> 0, open |-> 0]
    ELSE [kind |-> kind, state |-> "live", txn |-> "idle",
          attempted |-> 1, opened |-> 1, open |-> 1]

\* the context builder of each kind
SchemaContext(kind, d, query, plan) ==
    CASE kind = "minimal" -> Minimal_get_relevant_schema(d, query, plan)
      [] kind = "simple" -> Simple_get_relevant_schema(d, query, plan)
      [] OTHER -> get_optimized_schema_context(d, query, plan)

\* a call of the context builder: it raises what the cursor raises
get_relevant_schema(a, d, query, plan) ==
    LET meta == CursorMetadata(Conn(a))
    IN  IF meta.ok
        THEN [raised |-> FALSE, txn |-> meta.txn, requests |-> 0,
              result |-> SchemaContext(a.kind, d, query, plan)]
        ELSE [raised |-> TRUE, txn |-> meta.txn, requests |-> 0,
              result |-> [error |-> meta.error]]

\* sql_query.replace(fence_sql, '').replace(fence, '').strip() of the stripped content
CleanSql(content) == Strip(Remove(Remove(Strip(content), FenceSql), Fence))

GenerateFailure(error) == [success |-> FALSE, error |-> error, query |-> NULL]

GenerateSuccess(query, context) ==
    [success |-> TRUE, query |-> query, schema_context |-> Preview(context)]

\* MinimalSQLAgent.generate_sql, from the outcome of its call of
\* self.get_relevant_schema: the whole body is inside try/except Exception;
\* one requests.post once the schema context is built; a status other than 200
\* is the else branch, a transport failure or a body without
\* choices[0].message.content is an exception
Minimal_generate_sql(schema, reply) ==
    IF schema.raised
    THEN [raised |-> FALSE, txn |-> schema.txn, requests |-> 0,
          result |-> GenerateFailure(schema.result.error)]
    ELSE [raised |-> FALSE, txn |-> schema.txn, requests |-> 1,
          result |->
            CASE reply.kind = "transport_error" -> GenerateFailure("Connection error.")
              [] reply.kind = "status_error" ->
                   GenerateFailure("OpenAI API error: 500 - server error")
              [] reply.kind = "malformed" -> GenerateFailure("'choices'")
              [] OTHER -> GenerateSuccess(CleanSql(reply.content), schema.result)]

\* OpenAI(api_key=api_key): the client is built with its defaults, and by
\* default it sends a request that failed in transport or came back with a
\* server-error status again, twice, before it raises
ClientMaxRetries == 2

\* the requests one chat.completions.create sends
ClientRequests(reply) ==
    IF reply.kind \in {"transport_error", "status_error"} THEN 1 + ClientMaxRetries ELSE 1

\* SimpleSQLAgent.generate_sql, from the outcome of its call of
\* self.get_relevant_schema: one chat.completions.create inside
\* try/except Exception; the client raises on a transport failure and on a
\* status other than success, and a body without choices[0].message.content
\* raises in the agent
Simple_generate_sql(schema, reply) ==
    IF schema.raised
    THEN [raised |-> FALSE, txn |-> schema.txn, requests |-> 0,
          result |-> GenerateFailure(schema.result.error)]
    ELSE [raised |-> FALSE, txn |-> schema.txn, requests |-> ClientRequests(reply),
          result |->
            CASE reply.kind = "transport_error" -> GenerateFailure("Connection error.")
              [] reply.kind = "status_error" ->
                   GenerateFailure("Error code: 500 - server error")
              [] reply.kind = "malformed" -> GenerateFailure("list index out of range")
              [] OTHER -> GenerateSuccess(CleanSql(reply.content), schema.result)]

LowerCase == {LowerChar(c) : c \in UpperCase}

\* str.upper()
UpperChar(c) == IF c \in LowerCase THEN Alphabet[Rank(c) - 28] ELSE c

Upper(s) == [i \in DOMAIN s |-> UpperChar(s[i])]

\* text.split('\n')
RECURSIVE SplitLinesFrom(_, _, _)
SplitLinesFrom(s, cur, acc) ==
    IF s = <<>> THEN Append(acc, cur)
    ELSE IF Head(s) = "\n"
         THEN SplitLinesFrom(Tail(s), <<>>, Append(acc, cur))
         ELSE SplitLinesFrom(Tail(s), Append(cur, Head(s)), acc)

SplitLines(s) == SplitLinesFrom(s, <<>>, <<>>)

\* '\n'.join(lines)
RECURSIVE JoinLines(_)
JoinLines(lines) ==
    IF lines = <<>> THEN <<>>
    ELSE IF Len(lines) = 1 THEN Head(lines)
    ELSE Head(lines) \o NewLine \o JoinLines(Tail(lines))

\* the loop of SQLQueryAgent._extract_sql
RECURSIVE ExtractLoop(_, _, _)
ExtractLoop(lines, in_sql, sql_lines) ==
    IF lines = <<>> THEN sql_lines
    ELSE LET line == Head(lines)
             kept == IF Strip(line) # <<>> /\ ~IsPrefix(<<"#">>, line)
                     THEN Append(sql_lines, line) ELSE sql_lines
         IN  IF Contains(Upper(line), <<"S","E","L","E","C","T">>) \/ in_sql
             THEN IF ";" \in Range(line) THEN kept
                  ELSE ExtractLoop(Tail(lines), TRUE, kept)
             ELSE ExtractLoop(Tail(lines), FALSE, sql_lines)

extract_sql(text) ==
    LET sql_lines == ExtractLoop(SplitLines(text), FALSE, <<>>)
    IN  IF sql_lines # <<>> THEN JoinLines(sql_lines) ELSE Strip(text)

\* the crew runs its three tasks, each a request of its own at the least
CrewTasks == 3

\* SQLQueryAgent.generate_sql, from the outcome of its call of
\* schema_analyzer.get_optimized_schema_context
crew_generate_sql(schema, reply) ==
    IF schema.raised
    THEN [raised |-> FALSE, txn |-> schema.txn, requests |-> 0,
          result |-> GenerateFailure(schema.result.error)]
    ELSE [raised |-> FALSE, txn |-> schema.txn,
          requests |-> IF reply.kind = "ok" THEN CrewTasks ELSE 1,
          result |->
            IF reply.kind = "ok"
            THEN GenerateSuccess(extract_sql(reply.content), schema.result)
            ELSE GenerateFailure("crew kickoff failed")]

\* generate_sql of each kind
GenerateWith(kind, schema, reply) ==
    CASE kind = "minimal" -> Minimal_generate_sql(schema, reply)
      [] kind = "simple" -> Simple_generate_sql(schema, reply)
      [] OTHER -> crew_generate_sql(schema, reply)

generate_sql(a, d, query, plan, reply) ==
    GenerateWith(a.kind, get_relevant_schema(a, d, query, plan), reply)

\* a success that has None for the data of a frame without rows
ExecuteSuccess_none(df) ==
    [success |-> TRUE,
     data |-> IF df.rows = <<>> THEN NULL ELSE ToRecords(df.columns, df.rows),
     columns |-> df.columns, row_count |-> Len(df.rows)]

ExecuteSuccess(df) ==
    [success |-> TRUE, data |-> ToRecords(df.columns, df.rows),
     columns |-> df.columns, row_count |-> Len(df.rows)]

\* a failure that hands back an empty row list in place of None
ExecuteFailure_rows(error) == [success |-> FALSE, error |-> error, data |-> <<>>]

ExecuteFailure(error) == [success |-> FALSE, error |-> error, data |-> NULL]

\* MinimalSQLAgent.execute_query and SimpleSQLAgent.execute_query, on self.conn
execute_query(a, sql) ==
    LET df == ReadSqlQuery(Conn(a), sql)
    IN  [raised |-> FALSE, txn |-> df.txn, connects |-> 0, leaked |-> 0,
         result |-> IF df.ok THEN ExecuteSuccess(df) ELSE ExecuteFailure(df.error)]

\* SQLQueryAgent.execute_query: a connection of its own per call, closed on the
\* success path only
crew_execute_query(a, sql, connect_ok) ==
    LET df == ReadSqlQuery([status |-> "open", txn |-> "idle"], sql)
    IN  IF ~connect_ok
        THEN [raised |-> FALSE, txn |-> a.txn, connects |-> 0, leaked |-> 0,
              result |-> ExecuteFailure("could not connect to server")]
        ELSE [raised |-> FALSE, txn |-> a.txn, connects |-> 1,
              leaked |-> IF df.ok THEN 0 ELSE 1,
              result |-> IF df.ok THEN ExecuteSuccess(df) ELSE ExecuteFailure(df.error)]

\* a validate_sql that runs the statement itself in place of its EXPLAIN
validate_sql_run(a, sql) ==
    LET run == CursorExecute(Conn(a), sql)
    IN  [raised |-> FALSE, txn |-> run.txn,
         result |-> IF run.ok
                    THEN [valid |-> TRUE, message |-> "Query is valid"]
                    ELSE [valid |-> FALSE, message |-> run.error]]

\* validate_sql: EXPLAIN through self.cursor inside try/except Exception
validate_sql(a, sql) ==
    LET plan == CursorExplain(Conn(a), sql)
    IN  [raised |-> FALSE, txn |-> plan.txn,
         result |-> IF plan.ok
                    THEN [valid |-> TRUE, message |-> "Query is valid"]
                    ELSE [valid |-> FALSE, message |-> plan.error]]


----------------------------------------------------------------------------
(* Bounds and inputs *)

MaxBulkTables == 11
MaxBulkColumns == 16
MaxBulkInfo == 21
MaxBulkFks == 10
MaxConnections == 3

Questions ==
    { <<"H","o","w"," ","m","a","n","y"," ","c","a","t","c","h","m","e","n","t","s"," ","a","r","e"," ","i","n"," ","U","g","a","n","d","a","?">>,
      <<"C","a","t","c","h","m","e","n","t"," ","C","o","u","n","t","r","y">>,
      <<"B","u","l","k">>,
      <<"c","o","u","n","t","r","y","_","i","d"," "," ","n","a","m","e">>,
      <<"C","o","u","n","t","r","y"," ","L","i","s","t">>,
      <<>> }

QuestionBoth == <<"C","a","t","c","h","m","e","n","t"," ","C","o","u","n","t","r","y">>

QuestionCatchments == <<"H","o","w"," ","m","a","n","y"," ","c","a","t","c","h","m","e","n","t","s"," ","a","r","e"," ","i","n"," ","U","g","a","n","d","a","?">>

\* the statements a caller hands to execute_query and validate_sql: those of the
\* server and what generate_sql returns
SqlInputs == SqlTexts \cup {CleanSql(c) : c \in Contents}

TableChoices == {{}, {1}, {5}, {1, 2}, {1, 3}, {1, 2, 3}, {1, 2, 4}, {1, 2, 3, 4, 5}}

TableContents ==
    {Pick(TablePool, keep) \o BulkTables(n) : keep \in TableChoices, n \in {0, MaxBulkTables}}

ColumnContents ==
    { [commented |-> <<>>, info |-> <<>>],
      [commented |-> ColumnPool, info |-> InfoPool],
      [commented |-> BulkColumns(MaxBulkColumns) \o ColumnPool,
       info |-> InfoPool \o BulkInfo(MaxBulkInfo)] }

ForeignKeyContents ==
    { <<>>, <<CatchmentCountryFk>>, <<CatchmentCountryFk>> \o BulkFks(MaxBulkFks) }

Databases ==
    {Database(tables, cols.commented, cols.info, fks) :
        tables \in TableContents, cols \in ColumnContents, fks \in ForeignKeyContents}

SmallDatabases ==
    {Database(Pick(TablePool, keep), ColumnPool, InfoPool, <<CatchmentCountryFk>>) :
        keep \in {{}, {1, 2, 3}}}

\* the questions put to an agent of the full state machine
AgentQuestions == {QuestionCatchments, QuestionBoth}

----------------------------------------------------------------------------
(* The state machine *)

NoReply == [kind |-> "none", content |-> <<>>]

Call(op, arg, plan, reply, raised, result, requests, connects) ==
    [op |-> op, arg |-> arg, plan |-> plan, reply |-> reply, raised |-> raised,
     result |-> result, requests |-> requests, connects |-> connects]

NoCall == Call("none", <<>>, "none", NoReply, FALSE, [none |-> TRUE], 0, 0)

Callable == agent.state \in {"live", "closed"}

\* no app session: the agents are called directly
NoSession ==
    [session |-> FALSE, configured |-> FALSE, sql_agent |-> "None", chat_history |-> <<>>,
     rerun |-> FALSE, form |-> FALSE, trigger |-> "none", user_query |-> <<>>,
     calls |-> <<>>, constructed |-> 0, unclosed |-> 0]

Init ==
    /\ env \in [api_key : BOOLEAN, db_up : BOOLEAN]
    /\ db \in SmallDatabases
    /\ agent = NoAgent
    /\ last = NoCall
    /\ app = NoSession

SelectorInit ==
    /\ env = [api_key |-> TRUE, db_up |-> TRUE]
    /\ db \in Databases
    /\ agent = NoAgent
    /\ last = NoCall
    /\ app = NoSession

\* an agent is constructed
Construct(kind) ==
    /\ agent.state = "none"
    /\ agent' = Constructed(kind, env)
    /\ last' = Call("construct", <<>>, "none", NoReply, agent'.state = "failed",
                    [none |-> TRUE], 0, agent'.attempted)
    /\ UNCHANGED <<env, db, app>>

\* a call on the instance's own connection returns or raises: r is its outcome
Returns(op, arg, plan, reply, r) ==
    /\ agent' = [agent EXCEPT !.txn = r.txn]
    /\ last' = Call(op, arg, plan, reply, r.raised, r.result, r.requests, 0)

\* the context builder is called: get_relevant_schema, or the schema
\* analyzer's get_optimized_schema_context
GetRelevantSchema(questions) ==
    /\ Callable
    /\ \E query \in questions, plan \in Plans :
         Returns("get_relevant_schema", query, plan, NoReply,
                 get_relevant_schema(agent, db, query, plan))
    /\ UNCHANGED <<env, db, app>>

GenerateSql ==
    /\ Callable
    /\ \E query \in AgentQuestions, plan \in Plans, reply \in LlmReplies :
         Returns("generate_sql", query, plan, reply,
                 generate_sql(agent, db, query, plan, reply))
    /\ UNCHANGED <<env, db, app>>

ExecuteQuery ==
    /\ Callable
    /\ agent.kind \in {"minimal", "simple"}
    /\ \E sql \in SqlInputs :
         LET r == execute_query(agent, sql)
         IN  /\ agent' = [agent EXCEPT !.txn = r.txn]
             /\ last' = Call("execute_query", sql, "none", NoReply, r.raised, r.result,
                             0, r.connects)
    /\ UNCHANGED <<env, db, app>>

CrewExecuteQuery ==
    /\ Callable
    /\ agent.kind = "crew"
    /\ agent.attempted < MaxConnections
    /\ \E sql \in SqlInputs, connect_ok \in BOOLEAN :
         LET r == crew_execute_query(agent, sql, connect_ok)
         IN  /\ agent' = [agent EXCEPT !.attempted = @ + 1,
                                       !.opened = @ + r.connects,
                                       !.open = @ + r.leaked]
             /\ last' = Call("execute_query", sql, "none", NoReply, r.raised, r.result,
                             0, r.connects)
    /\ UNCHANGED <<env, db, app>>

ValidateSql ==
    /\ Callable
    /\ agent.kind \in {"minimal", "simple"}
    /\ \E sql \in SqlInputs :
         LET r == validate_sql(agent, sql)
         IN  /\ agent' = [agent EXCEPT !.txn = r.txn]
             /\ last' = Call("validate_sql", sql, "none", NoReply, r.raised, r.result, 0, 0)
    /\ UNCHANGED <<env, db, app>>

\* close(): the cursor and the constructor's connection are closed
close(a) == IF a.state = "live" THEN [a EXCEPT !.state = "closed", !.open = @ - 1] ELSE a

Close ==
    /\ agent.state = "live"
    /\ agent' = close(agent)
    /\ last' = Call("close", <<>>, "none", NoReply, FALSE, [none |-> TRUE], 0, 0)
    /\ UNCHANGED <<env, db, app>>

Next ==
    \/ \E kind \in Kinds : Construct(kind)
    \/ GetRelevantSchema(AgentQuestions)
    \/ GenerateSql
    \/ ExecuteQuery
    \/ CrewExecuteQuery
    \/ ValidateSql
    \/ Close

Spec == Init /\ [][Next]_vars

\* the context builders alone, over every database content of the bounds
\* each constructed agent builds one context
BuildContext == last.op = "construct" /\ GetRelevantSchema(Questions)

SelectorNext ==
    \/ \E kind \in Kinds : Construct(kind)
    \/ BuildContext

SelectorSpec == SelectorInit /\ [][SelectorNext]_vars


----------------------------------------------------------------------------
(* The context builders against their contract *)

\* the last call built a context
Built == last.op = "get_relevant_schema" /\ ~last.raised

\* the names of the candidate tables of a context
Candidates(context) == Range(TableNames(context.tables))

\* the number of column bullets under each table header of a context
RECURSIVE BulletCounts(_, _)
BulletCounts(lines, counts) ==
    IF lines = <<>> THEN counts
    ELSE IF Head(lines).kind = "table"
    THEN BulletCounts(Tail(lines), Append(counts, 0))
    ELSE IF Head(lines).kind = "column" /\ counts # <<>>
    THEN BulletCounts(Tail(lines), [counts EXCEPT ![Len(counts)] = @ + 1])
    ELSE BulletCounts(Tail(lines), counts)

\* C1: every context lists at most 10 candidate tables and renders at most 15
\* column bullets under each of them, whether the tables come from the keyword
\* match or from the fallback, for each of the three builders
C1_ContextIsCapped ==
    Built =>
        /\ Len(last.result.tables) <= TableLimit
        /\ \A n \in Range(BulletCounts(last.result.lines, <<>>)) : n <= ColumnLimit

\* no token of the question matches a table name or a table comment
NoTableMatches(d, query) == MatchingTables(d, Patterns(query), "fwd") = <<>>

\* C2: when the table-comment table holds a row and no token of the question
\* matches a table name or comment, the context lists at least one table and
\* is not the message that no table was found, for each of the three builders
C2_FallbackIsNotEmpty ==
    Built /\ db.comment_on_table # <<>> /\ NoTableMatches(db, last.arg) =>
        /\ last.result.tables # <<>>
        /\ NoTablesLine \notin Range(last.result.lines)

\* the commented columns of a table that a token of the question matches
KeywordColumns(d, table, query) ==
    LET Match(r) == r.table_name = table /\ ColumnMatches(r, Patterns(query))
    IN  SelectSeq(d.comment_on_column, Match)

ColumnNames(cols) == [i \in DOMAIN cols |-> cols[i].column_name]

NoNameTwice(names) == \A i, j \in DOMAIN names : names[i] = names[j] => i = j

\* C3: for each candidate table with fewer than 3 keyword-matched columns, the
\* final column list holds the table's introspection columns (the first 20 in
\* ordinal order) and holds no column name twice, for each of the three builders
C3_FewMatchesAreSupplemented ==
    Built =>
        \A i \in DOMAIN last.result.tables :
            Len(KeywordColumns(db, last.result.tables[i].table_name, last.arg))
                < MinMatchedColumns =>
                /\ \A c \in Range(InfoColumns(db, last.result.tables[i].table_name,
                                              last.plan, InfoColumnLimit)) :
                       c.column_name \in Range(ColumnNames(last.result.columns[i]))
                /\ NoNameTwice(ColumnNames(last.result.columns[i]))

\* C4: for the question "How many catchments are in Uganda?" and a table-comment
\* row of table catchment commented "catchment boundaries by country", the
\* candidate tables contain catchment, whatever other commented tables exist
C4_CatchmentIsCandidate ==
    /\ Built
    /\ last.arg = QuestionCatchments
    /\ \E r \in Range(db.comment_on_table) :
           r.table_name = t_catchment /\ r.comment = CatchmentComment
    => t_catchment \in Candidates(last.result)

CatchmentCountry ==
    [from_table |-> t_catchment, from_column |-> c_country_id,
     to_table |-> t_country, to_column |-> c_id]

\* C10: when catchment and country are both candidates and the database has the
\* foreign key catchment.country_id -> country.id, the context holds that
\* relationship line, however many other foreign keys touch the candidates, for
\* each of the three builders
C10_RelationshipIsRendered ==
    /\ Built
    /\ {t_catchment, t_country} \subseteq Candidates(last.result)
    /\ CatchmentCountry \in Range(ForeignKeyRows(db, <<t_catchment, t_country>>, "fwd"))
    => RelationshipLine(CatchmentCountry) \in Range(last.result.lines)

----------------------------------------------------------------------------
(* The calls of an agent against their contract *)

\* the statement of the step's execute_query reaches the database on a usable
\* connection: the one the crew variant opened for the call, or the agent's own,
\* open and not in a failed transaction
Reaches ==
    IF agent.kind = "crew" THEN last'.connects = 1
    ELSE agent.state = "live" /\ agent.txn # "aborted"

C6_OneRequestNeverRaises ==
    last.op = "generate_sql" /\ agent.kind \in {"minimal", "simple"} =>
        /\ ~last.raised
        /\ last.requests <= 1
        /\ IF last.result.success
           THEN last.reply.kind = "ok"
           ELSE "error" \in DOMAIN last.result /\ last.result.query = NULL

\* the agent as its constructor leaves it
Fresh == Constructed(agent.kind, env)

\* C7: on an open agent the result of a call depends on its argument only: it is
\* the result the same call has on the agent as constructed, whatever calls
\* came before and however they ended
C7_CallsAreStateless ==
    agent.state = "live" =>
        /\ last.op = "validate_sql" =>
               last.result = validate_sql(Fresh, last.arg).result
        /\ last.op = "execute_query" /\ agent.kind # "crew" =>
               last.result = execute_query(Fresh, last.arg).result
        /\ last.op = "generate_sql" =>
               last.result = generate_sql(Fresh, db, last.arg, last.plan, last.reply).result

\* C8: an agent has opened exactly one database connection, the one of its
\* construction, whatever calls it has served
C8_OneConnection ==
    agent.state \in {"live", "closed"} => agent.opened = 1

\* C9: a statement the database executes with an empty result set gives
\* success = true, row_count = 0, data = the empty list and no error field
C9_EmptyResultIsSuccess ==
    [][/\ last'.op = "execute_query"
       /\ Reaches
       /\ DbEval(last'.arg).kind = "rows"
       /\ DbEval(last'.arg).rows = <<>>
       => /\ last'.result.success
          /\ last'.result.row_count = 0
          /\ last'.result.data = <<>>
          /\ "error" \notin DOMAIN last'.result]_vars

\* a statement without rows came back as a success
C9_EmptyResultReturned ==
    /\ last.op = "execute_query"
    /\ last.arg = SqlEmpty
    /\ last.result.success
    /\ last.result.row_count = 0
    /\ last.result.data = <<>>

\* what the EXPLAIN of the step's validate_sql ends with on the agent's cursor:
\* the empty text when it completes, the error text otherwise
ExplainError ==
    IF agent.state # "live" THEN ClosedMessage
    ELSE IF agent.txn = "aborted" THEN AbortedMessage
    ELSE DbEval(last'.arg).explain

\* C11: validate_sql never raises; it returns valid = true exactly when the
\* EXPLAIN of the text completes without error, and any failure of it returns
\* valid = false with the error text as message
C11_ValidIffExplainCompletes ==
    [][last'.op = "validate_sql" =>
        /\ ~last'.raised
        /\ DOMAIN last'.result = {"valid", "message"}
        /\ last'.result.valid <=> ExplainError = ""
        /\ ~last'.result.valid => last'.result.message = ExplainError]_vars

\* a text that EXPLAIN rejects came back as invalid with the error text
C11_SyntaxErrorReturned ==
    /\ last.op = "validate_sql"
    /\ last.arg = SqlTypo
    /\ ~last.raised
    /\ ~last.result.valid
    /\ last.result.message = "syntax error at or near SELEC"

\* C13: the query of a successful generate_sql holds no code-fence marker and
\* no leading or trailing whitespace, for MinimalSQLAgent, SimpleSQLAgent and
\* the crew variant
C13_QueryIsBareSql ==
    last.op = "generate_sql" /\ ~last.raised /\ last.result.success =>
        /\ ~Contains(last.result.query, Fence)
        /\ Strip(last.result.query) = last.result.query

\* the table names of the Table: headers of a context, in their order
RECURSIVE HeaderNames(_)
HeaderNames(lines) ==
    IF lines = <<>> THEN <<>>
    ELSE IF Head(lines).kind = "table"
    THEN <<Head(lines).b>> \o HeaderNames(Tail(lines))
    ELSE HeaderNames(Tail(lines))

\* C14: no two entries of the candidate list and no two Table: blocks of the
\* context refer to the same table name, whatever rows the table-comment table
\* holds, for each of the three builders
C14_CandidatesAreDistinctByName ==
    Built =>
        /\ NoNameTwice(TableNames(last.result.tables))
        /\ NoNameTwice(HeaderNames(last.result.lines))

\* how many of the question's patterns match a table's name or comment
MatchCount(r, patterns) ==
    Cardinality({i \in DOMAIN patterns : TableMatches(r, <<patterns[i]>>)})

\* highest match count first, equal counts by table name ascending
RankedByMatchCount(tables, patterns) ==
    \A i, j \in DOMAIN tables :
        i < j =>
            \/ MatchCount(tables[i], patterns) > MatchCount(tables[j], patterns)
            \/ /\ MatchCount(tables[i], patterns) = MatchCount(tables[j], patterns)
               /\ ~TextLess(tables[j].table_name, tables[i].table_name)

\* C15: the matched candidates are ordered by match count, highest first, ties
\* by table name ascending, and the candidate list is a function of the
\* question and the database content alone, whatever order the database
\* returns unordered rows in
C15_RankedAndDeterministic ==
    Built /\ ~NoTableMatches(db, last.arg) =>
        /\ RankedByMatchCount(last.result.tables, Patterns(last.arg))
        /\ \A plan \in Plans :
               last.result.tables = SchemaContext(agent.kind, db, last.arg, plan).tables

\* the kinds of the lines of each Table: block of a context, block by block
RECURSIVE BlockKinds(_, _)
BlockKinds(lines, blocks) ==
    IF lines = <<>> THEN blocks
    ELSE IF Head(lines).kind = "table"
    THEN BlockKinds(Tail(lines), Append(blocks, <<"table">>))
    ELSE IF Head(lines).kind = "relationships" \/ blocks = <<>>
    THEN IF Head(lines).kind = "relationships" THEN blocks
         ELSE BlockKinds(Tail(lines), blocks)
    ELSE BlockKinds(Tail(lines),
                    [blocks EXCEPT ![Len(blocks)] = Append(@, Head(lines).kind)])

\* the table has no comment, no row in the column-comment table and no row in
\* the introspection view
Bare(d, table) ==
    /\ ~Truthy(table.comment)
    /\ \A r \in Range(d.comment_on_column) : r.table_name # table.table_name
    /\ \A r \in Range(d.columns) : r.table_name # table.table_name

\* C16: a candidate table without comment for which no columns are found is
\* rendered as its Table: line followed by the blank line, with no Description:
\* line and no Columns: line, for each of the three builders
C16_BareTableHeader ==
    Built =>
        \A i \in DOMAIN last.result.tables :
            Bare(db, last.result.tables[i]) =>
                BlockKinds(last.result.lines, <<>>)[i] = <<"table", "blank">>

\* the connections the instance holds open besides the constructor's
OpenedByExecuteQuery == agent.open - (IF agent.state = "live" THEN 1 ELSE 0)

\* C20: after any number of execute_query calls of the crew variant, failing or
\* not, no connection opened by execute_query remains open
C20_ExecuteQueryClosesItsConnection ==
    agent.kind = "crew" /\ agent.state \in {"live", "closed"} => OpenedByExecuteQuery = 0

----------------------------------------------------------------------------
(* The app: one script run per interaction of the session *)

MaxHistory == 2
MaxAgents == 2

\* what the text area holds at a submission
AppQuestions == {<<>>, QuestionCatchments}

\* all_configured: OPENAI_API_KEY, DB_HOST, DB_NAME and DB_USER are all set
AllConfigured == env.api_key /\ app.configured

\* a script run starts: session state as the last run left it, the widget
\* that triggered the run, and no call made yet
Started(trigger, user_query) ==
    [app |-> [app EXCEPT !.trigger = trigger, !.user_query = user_query, !.calls = <<>>,
                         !.rerun = FALSE, !.form = FALSE],
     agent |-> agent, ended |-> FALSE]

\* a Reset Agent that closes the agent and keeps it in the session
Sidebar_keep_agent(s) ==
    IF s.app.trigger = "reset" /\ AllConfigured
    THEN [app |-> [s.app EXCEPT !.chat_history = <<>>, !.rerun = TRUE,
                                !.unclosed = IF s.app.sql_agent = "agent" /\ s.agent.state = "live"
                                             THEN @ - 1 ELSE @],
          agent |-> IF s.app.sql_agent = "agent" THEN close(s.agent) ELSE s.agent,
          ended |-> TRUE]
    ELSE IF s.app.trigger = "clear"
    THEN [app |-> [s.app EXCEPT !.chat_history = <<>>, !.rerun = TRUE],
          agent |-> s.agent, ended |-> TRUE]
    ELSE s

\* the sidebar: Reset Agent closes the session's agent, sets it to None,
\* empties the history and reruns; Clear History empties the history and reruns
Sidebar(s) ==
    IF s.app.trigger = "reset" /\ AllConfigured
    THEN [app |-> [s.app EXCEPT !.sql_agent = "None", !.chat_history = <<>>, !.rerun = TRUE,
                                !.unclosed = IF s.app.sql_agent = "agent" /\ s.agent.state = "live"
                                             THEN @ - 1 ELSE @],
          agent |-> IF s.app.sql_agent = "agent" THEN close(s.agent) ELSE s.agent,
          ended |-> TRUE]
    ELSE IF s.app.trigger = "clear"
    THEN [app |-> [s.app EXCEPT !.chat_history = <<>>, !.rerun = TRUE],
          agent |-> s.agent, ended |-> TRUE]
    ELSE s

\* st.session_state.sql_agent = SimpleSQLAgent() inside try/except: a
\* constructor that raises leaves None in the session and stops the run
WithAgent(s, a) ==
    IF a.state = "live"
    THEN [app |-> [s.app EXCEPT !.sql_agent = "agent", !.form = TRUE,
                                !.constructed = @ + 1, !.unclosed = @ + 1],
          agent |-> a, ended |-> FALSE]
    ELSE [app |-> s.app, agent |-> a, ended |-> TRUE]

\* the main area up to the form: nothing but an error message unless all is
\* configured, and an agent is constructed when the session has none
InitialiseAgent(s) ==
    IF s.ended \/ ~AllConfigured THEN [s EXCEPT !.ended = TRUE]
    ELSE IF s.app.sql_agent # "None" THEN [s EXCEPT !.app.form = TRUE]
    ELSE WithAgent(s, Constructed("minimal", env))

\* a call the run makes on the session's agent
CallEntry(op, arg, a, r) ==
    [op |-> op, arg |-> arg, on |-> a.state, raised |-> r.raised,
     success |-> ~r.raised /\ r.result.success,
     query |-> IF op = "generate_sql" /\ ~r.raised /\ r.result.success
               THEN r.result.query ELSE <<>>]

\* chat_item: the keys results and error are present in an executed item only
ChatItem(user_query, result) ==
    [query |-> user_query, sql |-> result.query, schema_context |-> result.schema_context,
     results |-> <<>>, error |-> <<>>]

\* an append that puts the new item in front of the older ones
Appended_first(s, chat_item) ==
    [app |-> [s.app EXCEPT !.chat_history = <<chat_item>> \o @, !.rerun = TRUE],
     agent |-> s.agent, ended |-> TRUE]

\* st.session_state.chat_history.append(chat_item) and st.rerun()
Appended(s, chat_item) ==
    [app |-> [s.app EXCEPT !.chat_history = Append(@, chat_item), !.rerun = TRUE],
     agent |-> s.agent, ended |-> TRUE]

\* an execution that keeps exec_result in the item whatever its outcome
Executed_keeps_result(s, chat_item, sql, x) ==
    Appended([app |-> [s.app EXCEPT !.calls = Append(@, CallEntry("execute_query", sql, s.agent, x))],
              agent |-> [s.agent EXCEPT !.txn = x.txn], ended |-> FALSE],
             IF x.raised THEN chat_item
             ELSE IF x.result.success THEN [chat_item EXCEPT !.results = <<x.result>>]
             ELSE [chat_item EXCEPT !.results = <<x.result>>, !.error = <<x.result.error>>])

\* exec_result = agent.execute_query(result['query']), kept in the item
Executed(s, chat_item, sql, x) ==
    Appended([app |-> [s.app EXCEPT !.calls = Append(@, CallEntry("execute_query", sql, s.agent, x))],
              agent |-> [s.agent EXCEPT !.txn = x.txn], ended |-> FALSE],
             IF x.raised THEN chat_item
             ELSE IF x.result.success THEN [chat_item EXCEPT !.results = <<x.result>>]
             ELSE [chat_item EXCEPT !.error = <<x.result.error>>])

\* a run that executes the generated query whichever button was pressed
Generated_any_button(s, g) ==
    IF g.raised \/ ~g.result.success
    THEN [app |-> [s.app EXCEPT !.calls = Append(@, CallEntry("generate_sql", s.app.user_query, s.agent, g))],
          agent |-> [s.agent EXCEPT !.txn = g.txn], ended |-> g.raised]
    ELSE Executed([app |-> [s.app EXCEPT !.calls = Append(@, CallEntry("generate_sql", s.app.user_query, s.agent, g))],
                   agent |-> [s.agent EXCEPT !.txn = g.txn], ended |-> FALSE],
                  ChatItem(s.app.user_query, g.result), g.result.query,
                  execute_query([s.agent EXCEPT !.txn = g.txn], g.result.query))

\* result = agent.generate_sql(user_query) and what follows it
Generated(s, g) ==
    IF g.raised \/ ~g.result.success
    THEN [app |-> [s.app EXCEPT !.calls = Append(@, CallEntry("generate_sql", s.app.user_query, s.agent, g))],
          agent |-> [s.agent EXCEPT !.txn = g.txn], ended |-> g.raised]
    ELSE IF s.app.trigger = "execute"
    THEN Executed([app |-> [s.app EXCEPT !.calls = Append(@, CallEntry("generate_sql", s.app.user_query, s.agent, g))],
                   agent |-> [s.agent EXCEPT !.txn = g.txn], ended |-> FALSE],
                  ChatItem(s.app.user_query, g.result), g.result.query,
                  execute_query([s.agent EXCEPT !.txn = g.txn], g.result.query))
    ELSE Appended([app |-> [s.app EXCEPT !.calls = Append(@, CallEntry("generate_sql", s.app.user_query, s.agent, g))],
                   agent |-> [s.agent EXCEPT !.txn = g.txn], ended |-> FALSE],
                  ChatItem(s.app.user_query, g.result))

\* if (generate_sql or execute_sql) and user_query
ProcessQuery(s, plan, reply) ==
    IF s.ended \/ s.app.trigger \notin {"generate", "execute"} \/ s.app.user_query = <<>>
    THEN s
    ELSE Generated(s, generate_sql(s.agent, db, s.app.user_query, plan, reply))

\* one run of the script, top to bottom
Run(trigger, user_query, plan, reply) ==
    /\ app' = ProcessQuery(InitialiseAgent(Sidebar(Started(trigger, user_query))), plan, reply).app
    /\ agent' = ProcessQuery(InitialiseAgent(Sidebar(Started(trigger, user_query))), plan, reply).agent
    /\ UNCHANGED <<env, db, last>>

\* a browser opens the app: a new session, whose first run is due
AppInit ==
    /\ env \in [api_key : BOOLEAN, db_up : BOOLEAN]
    /\ db \in SmallDatabases
    /\ agent = NoAgent
    /\ last = NoCall
    /\ app \in {[NoSession EXCEPT !.session = TRUE, !.configured = c, !.rerun = TRUE] :
                  c \in BOOLEAN}

\* the run of the first load, the run st.rerun() asked for
ScriptRun ==
    /\ app.session
    /\ app.rerun
    /\ Run("none", <<>>, "fwd", NoReply)

\* the Reset Agent button, rendered when all is configured
ClickReset ==
    /\ app.session
    /\ ~app.rerun
    /\ AllConfigured
    /\ app.constructed < MaxAgents
    /\ Run("reset", <<>>, "fwd", NoReply)

\* the Clear History button
ClickClear ==
    /\ app.session
    /\ ~app.rerun
    /\ Run("clear", <<>>, "fwd", NoReply)

\* one of the form's two submit buttons, with what the text area holds
Submit ==
    /\ app.session
    /\ ~app.rerun
    /\ app.form
    /\ Len(app.chat_history) < MaxHistory
    /\ \E button \in {"generate", "execute"}, user_query \in AppQuestions,
          plan \in Plans, reply \in LlmReplies :
         Run(button, user_query, plan, reply)

AppNext ==
    \/ ScriptRun
    \/ ClickReset
    \/ ClickClear
    \/ Submit

AppSpec == AppInit /\ [][AppNext]_vars

\* the program in use: its agents called directly, or through a session of the app
ProgramInit == Init \/ AppInit

ProgramNext ==
    \/ ~app.session /\ Next
    \/ AppNext

ProgramSpec == ProgramInit /\ [][ProgramNext]_vars

----------------------------------------------------------------------------
(* Claims about the app and about construction *)

\* C12: with the API key missing or the database unreachable the constructor
\* raises and no usable instance exists; with the key missing no connection is
\* attempted; in the app the session's agent stays None and no run calls
\* generate_sql or execute_query
C12_FailedConstructionLeavesNoAgent ==
    /\ ~(env.api_key /\ env.db_up) =>
         /\ agent.state \in {"none", "failed"}
         /\ last.op = "construct" => last.raised
         /\ app.sql_agent = "None"
         /\ app.calls = <<>>
    /\ ~env.api_key => agent.attempted = 0

\* the app tried to construct its agent and the constructor raised
C12_ConstructorRaisedInApp ==
    /\ app.session
    /\ ~app.rerun
    /\ agent.state = "failed"
    /\ agent.attempted = 1
    /\ app.sql_agent = "None"

\* the run that just ended was a submission of the form
Submission == app.trigger \in {"generate", "execute"}

\* its generate_sql call returned success
GenerateSucceeded == app.calls # <<>> /\ app.calls[1].op = "generate_sql" /\ app.calls[1].success

\* the run appended exactly one entry, for the submitted question
OneEntryAppended ==
    /\ Len(app'.chat_history) = Len(app.chat_history) + 1
    /\ SubSeq(app'.chat_history, 1, Len(app.chat_history)) = app.chat_history
    /\ app'.chat_history[Len(app'.chat_history)].query = app'.user_query
    /\ app'.chat_history[Len(app'.chat_history)].sql = app'.calls[1].query

\* what a submission and Clear History do to the history
SubmissionAndClearEffects ==
    /\ Submission' /\ app'.user_query # <<>> /\ GenerateSucceeded' => OneEntryAppended
    /\ Submission' /\ (app'.user_query = <<>> \/ ~GenerateSucceeded') =>
         app'.chat_history = app.chat_history
    /\ app'.trigger = "clear" =>
         /\ app'.chat_history = <<>>
         /\ agent' = agent
         /\ app'.sql_agent = app.sql_agent

\* C17 as stated: the history changes by a successful submission and by Clear
\* History only, and no other step adds, removes or reorders entries
C17_OnlySubmissionAndClearChangeHistory ==
    [][/\ SubmissionAndClearEffects
       /\ ~Submission' /\ app'.trigger # "clear" => app'.chat_history = app.chat_history]_vars

\* C17, amended: the history changes by a successful submission, which appends
\* exactly one entry, by Clear History, which empties it and leaves the agent
\* untouched, and by Reset Agent, which empties it too; no other step adds,
\* removes or reorders entries
C17_HistoryFrame ==
    [][/\ SubmissionAndClearEffects
       /\ app'.trigger = "reset" => app'.chat_history = <<>>
       /\ app'.trigger = "none" => app'.chat_history = app.chat_history]_vars

\* a second entry was appended for a submission whose execution failed
C17_EntryAppendedAfterFailedExecution ==
    /\ app.trigger = "execute"
    /\ Len(app.chat_history) = 2
    /\ app.chat_history[2].error # <<>>
    /\ app.chat_history[2].results = <<>>

\* C18: a run calls execute_query only right after the generate_sql call of the
\* same submission returned success, only when the Execute Query button
\* triggered the submission, and only with the query string generate_sql
\* returned; after a failed generation it is not called
C18_ExecuteOnlyWhatWasGenerated ==
    \A i \in 1..Len(app.calls) :
        /\ app.calls[i].op = "execute_query" =>
             /\ i = 2
             /\ app.trigger = "execute"
             /\ app.calls[1].op = "generate_sql"
             /\ app.calls[1].success
             /\ app.calls[i].arg = app.calls[1].query
        /\ app.calls[i].op = "generate_sql" /\ ~app.calls[i].success => Len(app.calls) = i

\* the Execute Query button ran the query generated for the submitted question
C18_GeneratedQueryExecuted ==
    /\ app.trigger = "execute"
    /\ Len(app.calls) = 2
    /\ app.calls[2].op = "execute_query"
    /\ app.calls[2].arg = SqlSelect1
    /\ app.calls[2].success

\* every call of the last run was made on an agent not yet closed, the
\* session's agent is not a closed one, and at most one agent is unclosed
CallsOnUnclosedAgent ==
    /\ \A i \in 1..Len(app.calls) : app.calls[i].on = "live"
    /\ app.sql_agent = "agent" => agent.state = "live"
    /\ app.unclosed <= 1

\* C19: generate_sql and execute_query are only ever called on an agent whose
\* close() has not been called; Reset Agent closes the current agent, sets the
\* session's agent to None and empties the history, and the run that follows
\* constructs a fresh agent before any query is processed; at most one
\* unclosed agent exists in a session
C19_QueriesRunOnUnclosedAgent ==
    [][/\ CallsOnUnclosedAgent'
       /\ app'.trigger = "reset" =>
            /\ agent'.state # "live"
            /\ app'.unclosed = 0
            /\ app'.sql_agent = "None"
            /\ app'.chat_history = <<>>
       /\ app.trigger = "reset" =>
            /\ app'.trigger = "none"
            /\ app'.calls = <<>>
            /\ agent' = Constructed("minimal", env)
            /\ env.db_up => app'.sql_agent = "agent" /\ app'.constructed = app.constructed + 1]_vars

\* a query was processed by the agent constructed after a Reset Agent
C19_QueryOnSecondAgent ==
    /\ app.constructed = 2
    /\ app.unclosed = 1
    /\ app.calls # <<>>
    /\ app.calls[1].on = "live"

\* an entry has a question, and at most one of the keys results and error;
\* what it has under results is a successful execution's result
EntryWellFormed(item) ==
    /\ item.query # <<>>
    /\ Len(item.results) <= 1
    /\ Len(item.error) <= 1
    /\ ~(item.results # <<>> /\ item.error # <<>>)
    /\ item.results # <<>> => item.results[1].success

\* the entry the run appended is that of its submission: the question, the
\* SQL its successful generation returned, and the outcome of the execution
\* when the Execute Query button asked for one
NewEntryIsOfSubmission ==
    /\ app'.calls # <<>>
    /\ app'.calls[1].op = "generate_sql"
    /\ app'.calls[1].success
    /\ app'.chat_history[Len(app'.chat_history)].query = app'.user_query
    /\ app'.chat_history[Len(app'.chat_history)].sql = app'.calls[1].query
    /\ app'.chat_history[Len(app'.chat_history)].results # <<>> <=>
         app'.trigger = "execute" /\ Len(app'.calls) = 2 /\ app'.calls[2].success
    /\ app'.chat_history[Len(app'.chat_history)].error # <<>> <=>
         app'.trigger = "execute" /\ Len(app'.calls) = 2 /\ ~app'.calls[2].success
    /\ app'.trigger = "generate" =>
         /\ app'.chat_history[Len(app'.chat_history)].results = <<>>
         /\ app'.chat_history[Len(app'.chat_history)].error = <<>>

\* C21: every entry of the chat history has the question and the generated SQL
\* of a successful generation and never both an error and a results key:
\* results, of a successful execution, only if execution was requested and
\* succeeded, error only if it was requested and failed, and neither if only
\* generation was requested
C21_EntriesMatchTheirSubmission ==
    [][/\ \A i \in 1..Len(app'.chat_history) : EntryWellFormed(app'.chat_history[i])
       /\ Len(app'.chat_history) > Len(app.chat_history) => NewEntryIsOfSubmission]_vars

\* the history holds an executed entry with its results and a generated-only one
C21_ExecutedAndGeneratedEntries ==
    /\ Len(app.chat_history) = 2
    /\ app.chat_history[1].results # <<>>
    /\ app.chat_history[1].error = <<>>
    /\ app.chat_history[2].results = <<>>
    /\ app.chat_history[2].error = <<>>

=============================================================================
